---- MODULE Spec2Model ----
(***************************************************************************)
(* Model of python/cuml/dask/datasets/regression.py: the random-source     *)
(* resolver create_rs_generator, the partition sizing function             *)
(* generate_chunks_for_qr, make_low_rank_matrix and make_regression.       *)
(*                                                                         *)
(* Arrays are records [shape, data]: shape is the tuple of dimensions and  *)
(* data the entries in row-major order.  Indices are 1-based here and      *)
(* 0-based in the Python source.  Floating-point entries are modelled by   *)
(* integers: a random source is a deterministic stream indexed by          *)
(* (seed, position), and the numerical content of the QR factor and of the *)
(* singular profile is replaced by integer stand-ins, while every shape,   *)
(* chunk layout and data-flow step is the source's.  tail_strength, dtype,  *)
(* order and an explicit n_samples_per_part only set entry values or the   *)
(* chunking of intermediate arrays and are left at their defaults.         *)
(***************************************************************************)
EXTENDS Integers, Sequences, FiniteSets

VARIABLES op, args, pc, ret, ret2, np_random, dask_rs

vars == <<op, args, pc, ret, ret2, np_random, dask_rs>>

\* ------------------------------------------------------------ bounds
MaxSamples == 2
MaxFeatures == 2
MaxTargets == 2
MaxParts == 2
MaxTotal == 6

Seeds == {0, 1}
NpStates == 0..3
Biases == {0, 3}
Noises == {0, 1}
EffectiveRanks == {"None", "1"}

\* ------------------------------------------------------------ helpers
Min(a, b) == IF a < b THEN a ELSE b

Max(a, b) == IF a > b THEN a ELSE b

RECURSIVE SumSeq(_)
SumSeq(s) == IF s = <<>> THEN 0 ELSE Head(s) + SumSeq(Tail(s))

RECURSIVE Fact(_)
Fact(n) == IF n <= 1 THEN 1 ELSE n * Fact(n - 1)

\* ------------------------------------------------------------ arrays
Empty == [shape |-> <<>>, data |-> <<>>]

Rows(M) == M.shape[1]

Cols(M) == M.shape[2]

Get(M, i, j) == M.data[(i - 1) * Cols(M) + j]

\* the (r x c) array whose entry (i, j) is f[i, j]
Mat(r, c, f) ==
    [shape |-> <<r, c>>,
     data  |-> [k \in 1..(r * c) |-> f[((k - 1) \div c) + 1, ((k - 1) % c) + 1]]]

\* da.dot of two 2-d arrays
Dot(A, B) ==
    Mat(Rows(A), Cols(B),
        [i \in 1..Rows(A), j \in 1..Cols(B) |->
            SumSeq([t \in 1..Cols(A) |-> Get(A, i, t) * Get(B, t, j)])])

\* array + scalar, broadcast to every entry
AddScalar(M, b) == [M EXCEPT !.data = [k \in DOMAIN M.data |-> M.data[k] + b]]

\* scalar * array
Scale(k, M) == [M EXCEPT !.data = [i \in DOMAIN M.data |-> k * M.data[i]]]

\* elementwise sum of two arrays of the same shape
AddArr(A, B) == [A EXCEPT !.data = [k \in DOMAIN A.data |-> A.data[k] + B.data[k]]]

\* X[:, :k]
FirstCols(M, k) ==
    Mat(Rows(M), k, [i \in 1..Rows(M), j \in 1..k |-> Get(M, i, j)])

\* M[idx, :]
TakeRows(M, idx) ==
    Mat(Len(idx), Cols(M), [i \in 1..Len(idx), j \in 1..Cols(M) |-> Get(M, idx[i], j)])

\* M[:, idx]
TakeCols(M, idx) ==
    Mat(Rows(M), Len(idx), [i \in 1..Rows(M), j \in 1..Len(idx) |-> Get(M, i, idx[j])])

\* da.concatenate([A, B], axis=0)
ConcatRows(A, B) ==
    [shape |-> <<Rows(A) + Rows(B), Cols(A)>>, data |-> A.data \o B.data]

\* da.squeeze(a): every axis of length one is removed
squeeze(M) ==
    [shape |-> SelectSeq(M.shape, LAMBDA d : d # 1), data |-> M.data]

\* ------------------------------------------------------------ random sources
\* Entry drawn by the stream of seed `seed` at position `pos` (integer
\* stand-in for a normal variate; a function of the stream state only).
Val(seed, pos) == (((seed + 1) * (pos * pos + 3 * pos + 1) + pos) % 5) - 2

NoSource == [obj |-> "none", seed |-> 0, pos |-> 0]

Fresh(seed) == [obj |-> "fresh", seed |-> seed, pos |-> 0]

\* rs.standard_normal(shape): r*c entries read from the stream
standard_normal(rs, r, c) ==
    [shape |-> <<r, c>>,
     data  |-> [k \in 1..(r * c) |-> Val(rs.seed, rs.pos + k - 1)]]

\* the stream after r*c entries were read
Advance(rs, k) == [rs EXCEPT !.pos = @ + k]

\* the generator state after one draw: one cycle through NpStates
NextNp(s) == <<2, 3, 1, 0>>[s + 1]

RemoveAt(s, i) == SubSeq(s, 1, i - 1) \o SubSeq(s, i + 1, Len(s))

RECURSIVE KthPerm(_, _)
KthPerm(items, k) ==
    IF items = <<>> THEN <<>>
    ELSE LET f == Fact(Len(items) - 1)
             i == (k \div f) + 1
         IN  <<items[i]>> \o KthPerm(RemoveAt(items, i), k % f)

\* np.random.permutation(n): a permutation of 1..n decided by the state of
\* the process-wide NumPy generator
permutation(n, state) == KthPerm([i \in 1..n |-> i], state % Fact(n))

\* ------------------------------------------------------------ create_rs_generator
NoneKind == "NoneType"
IntKind == "int"
CupyKind == "cupy.random.generator.RandomState"
DaskKind == "dask.array.random.RandomState"
OtherKind == "numpy.random.mtrand.RandomState"

Kinds == {NoneKind, IntKind, CupyKind, DaskKind, OtherKind}

\* random_state is [kind, seed] (seed read for an int only), caller_rs the
\* caller's Dask RandomState object, entropy the seed the OS would supply.
\* For a CuPy RandomState line 34 passes no seed, so the new source is
\* seeded by the OS as for None.
create_rs_generator_lenient(random_state, caller_rs, entropy) ==
    LET rs_type == random_state.kind IN
    IF rs_type = NoneKind THEN [error |-> "none", rs |-> Fresh(entropy)]
    ELSE IF rs_type = IntKind THEN [error |-> "none", rs |-> Fresh(random_state.seed)]
    ELSE IF rs_type = DaskKind THEN [error |-> "none", rs |-> caller_rs]
    ELSE [error |-> "none", rs |-> Fresh(entropy)]

create_rs_generator(random_state, caller_rs, entropy) ==
    LET rs_type == random_state.kind IN
    IF rs_type = NoneKind THEN [error |-> "none", rs |-> Fresh(entropy)]
    ELSE IF rs_type = IntKind THEN [error |-> "none", rs |-> Fresh(random_state.seed)]
    ELSE IF rs_type = CupyKind THEN [error |-> "none", rs |-> Fresh(entropy)]
    ELSE IF rs_type = DaskKind THEN [error |-> "none", rs |-> caller_rs]
    ELSE [error |-> "random_state", rs |-> NoSource]

\* ------------------------------------------------------------ generate_chunks_for_qr
generate_chunks_no_rest(total_size, min_size, n_parts) ==
    LET n_total_per_part == Max(1, total_size \div n_parts)
        min_size2 == IF n_total_per_part > min_size THEN n_total_per_part ELSE min_size
        n_partitions == Max(1, total_size \div min_size2)
    IN  [i \in 1..n_partitions |-> min_size2]

generate_chunks_ignore_min(total_size, min_size, n_parts) ==
    LET n_total_per_part == Max(1, total_size \div n_parts)
        min_size2 == n_total_per_part
        n_partitions == Max(1, total_size \div min_size2)
        rest == total_size % (n_partitions * min_size2)
    IN  [i \in 1..n_partitions |-> IF i < n_partitions THEN min_size2 ELSE min_size2 + rest]

generate_chunks_keep_min(total_size, min_size, n_parts) ==
    LET min_size2 == min_size
        n_partitions == Max(1, total_size \div min_size2)
        rest == total_size % (n_partitions * min_size2)
    IN  [i \in 1..n_partitions |-> IF i < n_partitions THEN min_size2 ELSE min_size2 + rest]

generate_chunks_for_qr(total_size, min_size, n_parts) ==
    LET n_total_per_part == Max(1, total_size \div n_parts)
        min_size2 == IF n_total_per_part > min_size THEN n_total_per_part ELSE min_size
        n_partitions == Max(1, total_size \div min_size2)
        rest == total_size % (n_partitions * min_size2)
    IN  [i \in 1..n_partitions |-> IF i < n_partitions THEN min_size2 ELSE min_size2 + rest]

\* ------------------------------------------------------------ make_low_rank_matrix
\* da.linalg.qr(a)[0] of an (m x k) array: the reduced factor Q has shape
\* (m, min(m, k)).  Its entries stand for the orthonormalised columns.
qr(M) == FirstCols(M, Min(Rows(M), Cols(M)))

\* the singular profile local_s, one positive decaying weight per index
local_s(n) == [i \in 1..n |-> n + 1 - i]

\* u *= s : column j of u is scaled by s[j]
ScaleCols(U, s) ==
    Mat(Rows(U), Cols(U), [i \in 1..Rows(U), j \in 1..Cols(U) |-> Get(U, i, j) * s[j]])

\* lines 75-120, given the resolved source rs0
low_rank_body(n_samples, n_features, n_parts, rs0, n) ==
    LET m1 == standard_normal(rs0, n_samples, n)
        rs1 == Advance(rs0, n_samples * n)
        m2 == standard_normal(rs1, n, n_features)
    IN  [error |-> "none",
         graph |-> <<"standard_normal", "qr", "standard_normal", "qr",
                     "rechunk", "rechunk", "from_array", "mul", "dot">>,
         rs0 |-> rs0, rs |-> Advance(rs1, n * n_features),
         draws |-> Rows(m1) * Cols(m1) + Rows(m2) * Cols(m2),
         X |-> Dot(ScaleCols(qr(m1), local_s(n)), qr(m2)),
         m1_chunks |-> generate_chunks_for_qr(n_samples, n, n_parts),
         m2_chunks |-> generate_chunks_for_qr(n_features, n, n_parts),
         m1_shape |-> m1.shape, m2_shape |-> m2.shape,
         u_shape |-> qr(m1).shape, v_shape |-> qr(m2).shape]

make_low_rank_matrix(n_samples, n_features, random_state, n_parts, caller_rs, entropy) ==
    LET res == create_rs_generator(random_state, caller_rs, entropy) IN
    IF res.error # "none"
    THEN [error |-> res.error, graph |-> <<>>, rs0 |-> NoSource, rs |-> NoSource,
          draws |-> 0, X |-> Empty, m1_chunks |-> <<>>, m2_chunks |-> <<>>,
          m1_shape |-> <<>>, m2_shape |-> <<>>, u_shape |-> <<>>, v_shape |-> <<>>]
    ELSE low_rank_body(n_samples, n_features, n_parts, res.rs, Min(n_samples, n_features))

\* ------------------------------------------------------------ make_regression
\* the padding rows of the coefficients: 0.0 * rs.standard_normal(...)
zeroes_unscaled(rs, r, c) == standard_normal(rs, r, c)

zeroes(rs, r, c) == Scale(0, standard_normal(rs, r, c))

\* ground_truth[features_indices, :]
permute_ground_truth_skipped(ground_truth, features_indices) == ground_truth

permute_ground_truth(ground_truth, features_indices) ==
    TakeRows(ground_truth, features_indices)

\* The body of make_regression, block by block.  Each block takes the
\* arguments a and the frame f of local variables left by the block before it
\* and returns the frame after it; a frame whose error is set is the raised
\* exception and passes through the remaining blocks untouched.

\* lines 191-195: n_informative is clamped, the random source is resolved
reg_resolve(a, np, caller_rs, entropy) ==
    LET res == create_rs_generator(a.random_state, caller_rs, entropy) IN
    [error |-> res.error, graph |-> <<>>, rs0 |-> res.rs, rs |-> res.rs,
     draws |-> 0, np |-> np,
     n_informative |-> Min(a.n_features, a.n_informative),
     X |-> Empty, y |-> Empty, coef |-> Empty,
     X_pre |-> Empty, y_pre |-> Empty, gt_pre |-> Empty,
     X_rows |-> Empty, y_rows |-> Empty, X_cols |-> Empty, gt_cols |-> Empty,
     samples_indices |-> <<>>, features_indices |-> <<>>]

\* lines 197-214: the input set X.  X.rechunk to the column groups
\* (n_informative, n_features - n_informative) raises when the chunks do not
\* add up to the shape of X.
reg_input_set(a, f, entropy) ==
    IF f.error # "none" THEN f
    ELSE IF a.effective_rank = "None"
    THEN [f EXCEPT !.X = standard_normal(f.rs, a.n_samples, a.n_features),
                   !.rs = Advance(f.rs, a.n_samples * a.n_features),
                   !.graph = <<"standard_normal">>]
    ELSE LET lr == make_low_rank_matrix(a.n_samples, a.n_features,
                                        [kind |-> DaskKind, seed |-> 0],
                                        a.n_parts, f.rs, entropy)
         IN  [f EXCEPT !.X = lr.X, !.rs = lr.rs,
                       !.error = IF lr.X.shape = <<a.n_samples, a.n_features>>
                                 THEN "none" ELSE "rechunk",
                       !.graph = IF lr.X.shape = <<a.n_samples, a.n_features>>
                                 THEN lr.graph \o <<"rechunk">> ELSE lr.graph]

\* lines 220-232: the ground truth model and y
reg_ground_truth(a, f) ==
    IF f.error # "none" THEN f
    ELSE
    LET n_informative == f.n_informative
        ground_truth == Scale(100, standard_normal(f.rs, n_informative, a.n_targets))
        rs2 == Advance(f.rs, n_informative * a.n_targets)
        pad == n_informative # a.n_features
    IN  [f EXCEPT
           !.y_pre = AddScalar(Dot(FirstCols(f.X, n_informative), ground_truth), a.bias),
           !.gt_pre = IF pad
                      THEN ConcatRows(ground_truth,
                                      zeroes(rs2, a.n_features - n_informative, a.n_targets))
                      ELSE ground_truth,
           !.rs = IF pad
                  THEN Advance(rs2, (a.n_features - n_informative) * a.n_targets)
                  ELSE rs2,
           !.graph = @ \o <<"standard_normal", "mul", "getitem", "dot", "add", "rechunk">>
                       \o (IF pad
                           THEN <<"standard_normal", "mul", "concatenate", "rechunk">>
                           ELSE <<>>)]

\* lines 235-236: the noise
reg_noise(a, f) ==
    IF f.error # "none" \/ ~(a.noise > 0) THEN f
    ELSE [f EXCEPT
            !.y_pre = AddArr(@, Scale(a.noise,
                                      standard_normal(f.rs, a.n_samples, a.n_targets))),
            !.rs = Advance(f.rs, a.n_samples * a.n_targets),
            !.graph = @ \o <<"normal", "add">>]

\* lines 239-242: the samples are permuted (X_pre, y_pre are X and y before)
reg_shuffle_samples(a, f) ==
    IF f.error # "none" THEN f
    ELSE IF ~a.shuffle THEN [f EXCEPT !.X_pre = f.X, !.X_rows = f.X, !.y_rows = f.y_pre]
    ELSE LET samples_indices == permutation(a.n_samples, f.np)
         IN  [f EXCEPT !.X_pre = f.X,
                       !.samples_indices = samples_indices,
                       !.np = NextNp(f.np),
                       !.X_rows = TakeRows(f.X, samples_indices),
                       !.y_rows = TakeRows(f.y_pre, samples_indices),
                       !.graph = @ \o <<"getitem", "getitem">>]

\* lines 244-246: the features are permuted
reg_shuffle_features(a, f) ==
    IF f.error # "none" THEN f
    ELSE IF ~a.shuffle THEN [f EXCEPT !.X_cols = f.X_rows, !.gt_cols = f.gt_pre]
    ELSE LET features_indices == permutation(a.n_features, f.np)
         IN  [f EXCEPT !.features_indices = features_indices,
                       !.np = NextNp(f.np),
                       !.X_cols = TakeCols(f.X_rows, features_indices),
                       !.gt_cols = permute_ground_truth(f.gt_pre, features_indices),
                       !.graph = @ \o <<"getitem", "getitem">>]

\* lines 248-255: the values returned
reg_return(a, f) ==
    IF f.error # "none"
    THEN [f EXCEPT !.draws = f.rs.pos - f.rs0.pos, !.X = Empty]
    ELSE [f EXCEPT !.draws = f.rs.pos - f.rs0.pos,
                   !.X = f.X_cols,
                   !.y = squeeze(f.y_rows),
                   !.coef = IF a.coef THEN squeeze(f.gt_cols) ELSE Empty,
                   !.graph = @ \o (IF a.coef THEN <<"squeeze", "squeeze">>
                                   ELSE <<"squeeze">>)]

\* a: the arguments; np: the state of the process-wide NumPy generator;
\* the result is the frame at the return (or at the raise)
make_regression(a, np, caller_rs, entropy) ==
    reg_return(a,
      reg_shuffle_features(a,
        reg_shuffle_samples(a,
          reg_noise(a,
            reg_ground_truth(a,
              reg_input_set(a, reg_resolve(a, np, caller_rs, entropy), entropy))))))

\* ------------------------------------------------------------ callers
RandomStates ==
    {[kind |-> k, seed |-> 0] : k \in Kinds \ {IntKind}}
        \cup {[kind |-> IntKind, seed |-> s] : s \in Seeds}

\* n_informative ranges below, at and above n_features; n_parts takes the
\* two ends of its range (it only sets chunk layouts)
RegressionArgs ==
    {a \in [n_samples : 1..MaxSamples, n_features : 1..MaxFeatures,
            n_informative : 1..(MaxFeatures + 1), n_targets : 1..MaxTargets,
            bias : Biases, effective_rank : EffectiveRanks, noise : Noises,
            shuffle : BOOLEAN, coef : BOOLEAN, random_state : RandomStates,
            n_parts : {1, MaxParts}] :
        a.n_informative <= a.n_features + 1}

LowRankArgs ==
    [n_samples : 1..MaxSamples, n_features : 1..MaxFeatures,
     n_informative : {1}, n_targets : {1},
     bias : {0}, effective_rank : {"1"}, noise : {0},
     shuffle : {FALSE}, coef : {FALSE}, random_state : RandomStates,
     n_parts : 1..MaxParts]

NoRet == [error |-> "not called"]

\* the caller's Dask RandomState object, when random_state is one
CallerObjects(a) ==
    IF a.random_state.kind = DaskKind
    THEN {[obj |-> "caller", seed |-> s, pos |-> 0] : s \in Seeds}
    ELSE {[obj |-> "caller", seed |-> 0, pos |-> 0]}

\* the states of the process-wide NumPy generator that a call can tell
\* apart: it is read by the shuffle step only
NpStatesRead(a) == IF a.shuffle THEN NpStates ELSE {0}

\* the seeds the OS may supply; read only when a fresh unseeded source is made
Entropy(a) ==
    IF a.random_state.kind \in {NoneKind, CupyKind} THEN Seeds ELSE {0}

Init ==
    /\ op \in {"make_regression", "make_low_rank_matrix"}
    /\ args \in (IF op = "make_regression" THEN RegressionArgs ELSE LowRankArgs)
    /\ np_random \in NpStatesRead(args)
    /\ dask_rs \in CallerObjects(args)
    /\ pc = "init"
    /\ ret = NoRet
    /\ ret2 = NoRet

Returned(r) ==
    /\ np_random' = r.np
    /\ dask_rs' = IF r.rs.obj = "caller" THEN r.rs ELSE dask_rs
    /\ UNCHANGED <<op, args>>

\* a first call of make_regression with the arguments args
CallMakeRegression ==
    /\ op = "make_regression" /\ pc = "init"
    /\ \E entropy \in Entropy(args) :
         LET r == make_regression(args, np_random, dask_rs, entropy)
         IN  ret' = r /\ Returned(r)
    /\ pc' = "called"
    /\ UNCHANGED ret2

\* a second call with the same arguments, later in the same process
CallMakeRegressionAgain ==
    /\ op = "make_regression" /\ pc = "called"
    /\ \E entropy \in Entropy(args) :
         LET r == make_regression(args, np_random, dask_rs, entropy)
         IN  ret2' = r /\ Returned(r)
    /\ pc' = "repeated"
    /\ UNCHANGED ret

CallMakeLowRankMatrix ==
    /\ op = "make_low_rank_matrix" /\ pc = "init"
    /\ \E entropy \in Entropy(args) :
         LET r == make_low_rank_matrix(args.n_samples, args.n_features,
                                       args.random_state, args.n_parts,
                                       dask_rs, entropy)
         IN  /\ ret' = r
             /\ dask_rs' = IF r.rs.obj = "caller" THEN r.rs ELSE dask_rs
    /\ pc' = "called"
    /\ UNCHANGED <<op, args, ret2, np_random>>

Next == CallMakeRegression \/ CallMakeRegressionAgain \/ CallMakeLowRankMatrix

Spec == Init /\ [][Next]_vars

\* ------------------------------------------------------------ generate_chunks_for_qr alone
ChunkArgs ==
    [total_size : 1..MaxTotal, min_size : 1..MaxTotal, n_parts : 1..MaxTotal]
        \cup {[total_size |-> 100, min_size |-> 30, n_parts |-> 3]}

InitChunks ==
    /\ op = "generate_chunks_for_qr"
    /\ args \in ChunkArgs
    /\ np_random = 0
    /\ dask_rs = NoSource
    /\ pc = "init"
    /\ ret = <<>>
    /\ ret2 = NoRet

CallGenerateChunks ==
    /\ op = "generate_chunks_for_qr" /\ pc = "init"
    /\ ret' = generate_chunks_for_qr(args.total_size, args.min_size, args.n_parts)
    /\ pc' = "called"
    /\ UNCHANGED <<op, args, ret2, np_random, dask_rs>>

NextChunks == CallGenerateChunks

SpecChunks == InitChunks /\ [][NextChunks]_vars

\* ------------------------------------------------------------ properties
ChunksCalled == op = "generate_chunks_for_qr" /\ pc = "called"

ChunksInDomain == ChunksCalled /\ args.min_size <= args.total_size

\* C1: for total_size >= 1, n_parts >= 1 and 1 <= min_block_size <= total_size
\* the sizing returns a non-empty sequence that sums to total_size with every
\* entry >= min_block_size; (100, 30, 3) yields (33, 33, 34).
C1_ChunksSumAndFloor ==
    ChunksInDomain =>
        /\ Len(ret) >= 1
        /\ SumSeq(ret) = args.total_size
        /\ \A i \in 1..Len(ret) : ret[i] >= args.min_size
        /\ (args = [total_size |-> 100, min_size |-> 30, n_parts |-> 3]
               => ret = <<33, 33, 34>>)

C1_Witness ==
    /\ ChunksInDomain
    /\ args = [total_size |-> 100, min_size |-> 30, n_parts |-> 3]
    /\ ret = <<33, 33, 34>>

\* C10 as stated: the number of blocks returned is at most n_parts.
C10_AtMostNParts == ChunksInDomain => Len(ret) <= args.n_parts

\* C10 amended: the number of blocks is at most n_parts whenever
\* total_size < (n_parts + 1) * max(1, total_size // n_parts); in every case
\* it is at most total_size // min_block_size and below 2 * n_parts.
C10_PartCountBound ==
    ChunksInDomain =>
        /\ (args.total_size < (args.n_parts + 1) * Max(1, args.total_size \div args.n_parts)
               => Len(ret) <= args.n_parts)
        /\ Len(ret) <= args.total_size \div args.min_size
        /\ Len(ret) < 2 * args.n_parts

C10_Witness ==
    /\ ChunksInDomain
    /\ args.total_size = 5 /\ args.min_size = 1 /\ args.n_parts = 3
    /\ Len(ret) = 5

LowRankReturned ==
    op = "make_low_rank_matrix" /\ pc = "called" /\ ret.error = "none"

\* C2: the matrix returned by make_low_rank_matrix has shape
\* (n_samples, n_features); the first factor has shape (n_samples, n), the
\* second (n, n_features), n = min(n_samples, n_features).
C2_LowRankShape ==
    LowRankReturned =>
        LET n == Min(args.n_samples, args.n_features) IN
        /\ ret.u_shape = <<args.n_samples, n>>
        /\ ret.v_shape = <<n, args.n_features>>
        /\ ret.X.shape = <<args.n_samples, args.n_features>>

\* C9: both chunk layouts handed to the block QR are valid: the row blocks of
\* the first random matrix are each >= n and sum to n_samples, the column
\* blocks of the second are each >= n and sum to n_features, and the sizing is
\* never asked for a total below the minimum block size.
C9_QrChunksValid ==
    LowRankReturned =>
        LET n == Min(args.n_samples, args.n_features) IN
        /\ ret.m1_shape = <<args.n_samples, n>>
        /\ ret.m2_shape = <<n, args.n_features>>
        /\ n <= ret.m1_shape[1] /\ n <= ret.m2_shape[2]
        /\ Len(ret.m1_chunks) >= 1 /\ Len(ret.m2_chunks) >= 1
        /\ \A i \in 1..Len(ret.m1_chunks) : ret.m1_chunks[i] >= n
        /\ SumSeq(ret.m1_chunks) = args.n_samples
        /\ \A i \in 1..Len(ret.m2_chunks) : ret.m2_chunks[i] >= n
        /\ SumSeq(ret.m2_chunks) = args.n_features

C9_Witness ==
    /\ LowRankReturned
    /\ args.n_features < args.n_samples
    /\ Len(ret.m1_chunks) >= 2
    /\ args.n_parts >= 2

\* the results of the make_regression calls made so far
RegResults ==
    IF op # "make_regression" \/ pc = "init" THEN {}
    ELSE IF pc = "called" THEN {ret} ELSE {ret, ret2}

RegReturned == {r \in RegResults : r.error = "none"}

\* C3: y has shape (n_samples,) when n_targets == 1 and (n_samples, n_targets)
\* otherwise, for every n_samples >= 1.
C3_YShape ==
    \A r \in RegReturned :
        r.y.shape = IF args.n_targets = 1 THEN <<args.n_samples>>
                    ELSE <<args.n_samples, args.n_targets>>

\* the feature row (1-based) that entry k of the flattened coefficients is in
CoefRow(k) == ((k - 1) \div args.n_targets) + 1

\* C4 as stated: with coef=True, rows n_informative..n_features-1 (0-based) of
\* the returned coefficients are zero for every value of the other options.
C4_TrailingRowsZero ==
    \A r \in RegReturned :
        args.coef =>
            \A k \in 1..Len(r.coef.data) :
                CoefRow(k) > r.n_informative => r.coef.data[k] = 0

\* C4 amended: with shuffle off the rows n_informative..n_features-1 are zero;
\* with shuffle on the zero rows are those at the positions i whose feature
\* index features_indices[i] is >= n_informative.
C4_ZeroRowsFollowFeatures ==
    \A r \in RegReturned :
        args.coef =>
            /\ Len(r.coef.data) = args.n_features * args.n_targets
            /\ \A k \in 1..Len(r.coef.data) :
                 LET src == IF args.shuffle THEN r.features_indices[CoefRow(k)]
                            ELSE CoefRow(k)
                 IN  src > r.n_informative => r.coef.data[k] = 0

C4_Witness ==
    /\ op = "make_regression" /\ pc = "called" /\ ret.error = "none"
    /\ args.coef /\ args.shuffle
    /\ args.n_features = 2 /\ ret.n_informative = 1
    /\ ret.features_indices = <<2, 1>>
    /\ ret.coef.data[1] = 0
    /\ ret.coef.data[Len(ret.coef.data)] # 0

\* C5: two calls with the same integer random_state and the same other
\* arguments return identical X, y and coefficients.
C5_SameSeedSameOutput ==
    (op = "make_regression" /\ pc = "repeated" /\ args.random_state.kind = IntKind) =>
        /\ ret2.error = ret.error
        /\ ret2.X = ret.X
        /\ ret2.y = ret.y
        /\ ret2.coef = ret.coef

IsPermutation(s, n) ==
    Len(s) = n /\ \A v \in 1..n : \E i \in 1..n : s[i] = v

Count(s, x) == Cardinality({i \in 1..Len(s) : s[i] = x})

SameBag(s1, s2) ==
    /\ Len(s1) = Len(s2)
    /\ \A i \in 1..Len(s1) : Count(s1, s1[i]) = Count(s2, s1[i])

RowOf(M, i) == [j \in 1..Cols(M) |-> Get(M, i, j)]

ColOf(M, j) == [i \in 1..Rows(M) |-> Get(M, i, j)]

RowSeq(M) == [i \in 1..Rows(M) |-> RowOf(M, i)]

RowPairs(A, B) == [i \in 1..Rows(A) |-> <<RowOf(A, i), RowOf(B, i)>>]

ColRowPairs(A, B) == [j \in 1..Cols(A) |-> <<ColOf(A, j), RowOf(B, j)>>]

\* C6: with shuffle on, the rows of X after the sample shuffle are a
\* permutation of the rows before, the same sample permutation is applied to
\* X and y, and the same feature permutation to the columns of X and the rows
\* of the coefficients, so each coefficient row stays with its column.
C6_ShuffleIsConsistentPermutation ==
    \A r \in RegReturned :
        args.shuffle =>
            /\ IsPermutation(r.samples_indices, args.n_samples)
            /\ IsPermutation(r.features_indices, args.n_features)
            /\ SameBag(RowSeq(r.X_rows), RowSeq(r.X_pre))
            /\ SameBag(RowPairs(r.X_rows, r.y_rows), RowPairs(r.X_pre, r.y_pre))
            /\ Rows(r.gt_cols) = args.n_features
            /\ SameBag(ColRowPairs(r.X_cols, r.gt_cols), ColRowPairs(r.X_rows, r.gt_pre))
            /\ \A j \in 1..args.n_features :
                 /\ ColOf(r.X_cols, j) = ColOf(r.X_rows, r.features_indices[j])
                 /\ RowOf(r.gt_cols, j) = RowOf(r.gt_pre, r.features_indices[j])
            /\ r.X = r.X_cols
            /\ r.y = squeeze(r.y_rows)
            /\ (args.coef => r.coef = squeeze(r.gt_cols))

C6_Witness ==
    /\ op = "make_regression" /\ pc = "called" /\ ret.error = "none"
    /\ args.shuffle /\ args.coef
    /\ args.n_samples = 2 /\ args.n_features = 2
    /\ ret.samples_indices = <<2, 1>> /\ ret.features_indices = <<2, 1>>
    /\ RowOf(ret.X_pre, 1) # RowOf(ret.X_pre, 2)
    /\ ColOf(ret.X_pre, 1) # ColOf(ret.X_pre, 2)
    /\ RowOf(ret.gt_pre, 1) # RowOf(ret.gt_pre, 2)
    /\ RowOf(ret.y_pre, 1) # RowOf(ret.y_pre, 2)

\* C7: create_rs_generator returns a distributed source for None, an int, a
\* CuPy RandomState and a Dask RandomState (the Dask one is the caller's own
\* object) and raises for any other kind; in make_low_rank_matrix and in
\* make_regression that error comes before any array node is created and
\* before any randomness is consumed.
C7_ResolveFirst ==
    [][pc' # pc =>
        LET r == IF pc' = "repeated" THEN ret2' ELSE ret' IN
        IF args.random_state.kind = OtherKind
        THEN /\ r.error = "random_state"
             /\ r.graph = <<>>
             /\ r.draws = 0
             /\ r.rs = NoSource
             /\ np_random' = np_random
             /\ dask_rs' = dask_rs
        ELSE /\ r.error # "random_state"
             /\ r.rs0.obj \in {"fresh", "caller"}
             /\ (args.random_state.kind = DaskKind
                    => r.rs0 = dask_rs /\ dask_rs' = r.rs)
             /\ (args.random_state.kind # DaskKind
                    => r.rs0.obj = "fresh" /\ r.rs0.pos = 0 /\ dask_rs' = dask_rs)
             /\ (args.random_state.kind = IntKind
                    => r.rs0.seed = args.random_state.seed)]_vars

C7_Witness ==
    /\ op = "make_regression" /\ pc = "called"
    /\ args.random_state.kind = OtherKind
    /\ args.shuffle /\ args.effective_rank = "1" /\ args.noise > 0
    /\ ret.error = "random_state" /\ ret.graph = <<>>

\* numpy.dot of the returned X (2-d) with the returned coefficients (0-d, 1-d
\* or 2-d): defined when the coefficients are a scalar or their leading axis
\* matches the columns of X
NpDotDefined(X, c) == Len(c.shape) = 0 \/ c.shape[1] = Cols(X)

NpDotData(X, c) ==
    IF Len(c.shape) = 0 THEN Scale(c.data[1], X).data
    ELSE IF Len(c.shape) = 1 THEN Dot(X, [shape |-> <<c.shape[1], 1>>, data |-> c.data]).data
    ELSE Dot(X, c).data

\* C8: with noise <= 0 and coef=True no noise draw is made and the returned
\* values satisfy y = X . coefficients + bias entry by entry.
C8_ExactLinearModel ==
    \A r \in RegReturned :
        (args.noise <= 0 /\ args.coef) =>
            /\ \A i \in 1..Len(r.graph) : r.graph[i] # "normal"
            /\ NpDotDefined(r.X, r.coef)
            /\ r.y.data = [k \in 1..Len(r.y.data) |-> NpDotData(r.X, r.coef)[k] + args.bias]

====
